---- MODULE Spec2Model ----
(***************************************************************************)
(* Resource-scope helpers of github.com/harrybrwn/db: WithStmt, WithTx,    *)
(* WithTxStmt (utils.go) and TxDo (tx.go).  One helper call is followed    *)
(* from its entry to its return; every call it makes on a collaborator     *)
(* (BeginTx, PrepareContext, the user callback, Close, Commit, Rollback)   *)
(* is one step whose outcome the environment chooses.                      *)
(***************************************************************************)
EXTENDS Integers, Sequences, FiniteSets, TLC

\* Number of distinct transaction handles a begin operation can hand out.
NumTx == 2

\* Most rows a result set handed to ScanOne holds.
MaxRows == 3

\* Most destination bindings handed to ScanOne.
MaxDest == 2

\* WaitFor's default poll interval (time.Second * 2), in time units.
DefaultInterval == 2

\* Longest interval given through WithInterval.
MaxInterval == 2

\* Longest timeout given through WithTimeout.
MaxTimeout == 2

\* Latest reading of the clock at which WaitFor is called.
MaxStart == 1

\* Most calls made on one transaction wrapper.
MaxWrapperCalls == 3

\* Most assignments (os.Setenv, Config fields) made in one run.
MaxSets == 2

\* The clock is followed up to this reading.
MaxTime == MaxStart + MaxTimeout + MaxInterval + 1

TxIds == 1..NumTx

Helpers == {"WithStmt", "WithTx", "WithTxStmt", "TxDo"}

StmtHelpers == {"WithStmt", "WithTxStmt"}

TxHelpers == {"WithTx", "WithTxStmt", "TxDo"}

(***************************************************************************)
(* Errors.  An error value is its underlying cause and the number of       *)
(* errors.WithStack wrappers around it; Nil is Go's nil error.             *)
(***************************************************************************)
Nil == [cause |-> "nil", stack |-> 0]

Err(c) == [cause |-> c, stack |-> 0]

\* The callback did not return: it panicked.
Panic == [cause |-> "panic", stack |-> 0]

\* errors.WithStack: nil stays nil, anything else gets one more wrapper.
WithStack(e) == IF e = Nil THEN Nil ELSE [e EXCEPT !.stack = @ + 1]

\* errors.Is: wrappers are transparent.
Is(e, c) == e # Nil /\ e.cause = c

VARIABLES
    helper,     \* the helper being executed ("none" before the call)
    pc,         \* position inside the helper
    txOpts,     \* the txOpts argument: "nil", "custom" ("na": no such argument)
    beginOpts,  \* the options BeginTx received
    tx,         \* the transaction handle in use (0: none)
    txState,    \* state of that transaction
    stmtState,  \* state of the prepared statement
    prepOn,     \* the object PrepareContext was called on
    fnArg,      \* the argument the user callback received
    cbFinal,    \* what the callback itself called on the transaction
    cbRes,      \* what that call returned to the callback
    serr,       \* WithStmt's named result err
    terr,       \* WithTx's / TxDo's named result err
    panicking,  \* a panic of the callback is unwinding the stack
    calls,      \* the calls made on collaborators, in order, with results
    \* ScanOne (db.go)
    spc,        \* position inside ScanOne
    rowsLeft,   \* rows the iterator has not yet produced
    rowsErr,    \* the iterator fails on its next advance
    dest,       \* number of destination bindings given to ScanOne
    scanArgs,   \* number of bindings Scan received (-1: not called)
    consumed,   \* rows the iterator has produced
    nextRes,    \* what Next returned: "none" (not called), "true", "false"
    errRes,     \* what Err returned
    scanRes,    \* what Scan returned
    closeRes,   \* what Close returned
    scalls,     \* the methods ScanOne called on the iterator, in order
    sret,       \* what ScanOne returns
    \* WaitFor (db.go)
    wpc,        \* position inside WaitFor
    interval,   \* wo.interval
    timeoutOpt, \* wo.timeout (0: no WithTimeout option)
    start,      \* now() when WaitFor was called
    now,        \* the clock
    hasDeadline,\* ctx was replaced by context.WithDeadline
    deadline,   \* that deadline
    cancelled,  \* the caller has cancelled its context
    ctxErr,     \* ctx.Err(): "none" while ctx is not done
    pingCtxDeadline, \* deadline of the ctx PingContext received (-1: none)
    nextTick,   \* when the ticker fires next (-1: no ticker)
    tickReady,  \* a tick is waiting in ticker.C
    ticks,      \* ticks WaitFor has received from ticker.C
    inflight,   \* probes issued and not yet returned
    nPingCtx,   \* PingContext calls issued
    nPing,      \* Ping calls issued
    nFail,      \* probes that returned an error
    lastRes,    \* what the last probe returned
    probeTime,  \* time that passed while a probe was in flight
    wret,       \* what WaitFor returns
    wretCtx,    \* the context error the returned error carries
    \* Begin and the transaction wrapper (tx.go)
    bpc,        \* position inside Begin
    bhandle,    \* the kind of handle given to Begin
    bbranch,    \* the case of the type switch that was taken
    bcalls,     \* BeginTx calls made by Begin
    begun,      \* what that BeginTx returned: "none", "dbtx" or "sqltx"
    bretTx,     \* the Tx Begin returns: "nil", "dbtx" or "wrapper"
    bretErr,    \* the error Begin returns
    wrState,    \* state of the *sql.Tx inside the wrapper ("none": no wrapper)
    wrCalls,    \* the calls made on the wrapper, in order
    started,    \* transactions started on the driver
    \* Config (config.go)
    cfg,        \* the Config value
    env,        \* the process environment: the variables that are set
    nsets,      \* assignments made so far
    last,       \* the last operation: "none", "set", "Init", "URI", "getEnvUint"
    pre,        \* the Config before Init, when Init was just called
    reads,      \* the variables that Init looked up
    uri,        \* the result of URI, when URI was just called
    geu         \* key, defaults and results of getEnvUint, just called

helperVars == <<helper, pc, txOpts, beginOpts, tx, txState, stmtState, prepOn,
                fnArg, cbFinal, cbRes, serr, terr, panicking, calls>>

scanVars == <<spc, rowsLeft, rowsErr, dest, scanArgs, consumed, nextRes,
              errRes, scanRes, closeRes, scalls, sret>>

waitVars == <<wpc, interval, timeoutOpt, start, now, hasDeadline, deadline,
              cancelled, ctxErr, pingCtxDeadline, nextTick, tickReady, ticks,
              inflight, nPingCtx, nPing, nFail, lastRes, probeTime, wret,
              wretCtx>>

beginVars == <<bpc, bhandle, bbranch, bcalls, begun, bretTx, bretErr, wrState,
               wrCalls, started>>

confVars == <<cfg, env, nsets, last, pre, reads, uri, geu>>

\* State of the components a helper call leaves alone.
notHelperVars == <<scanVars, waitVars, beginVars, confVars>>

\* State of the components a ScanOne call leaves alone.
notScanVars == <<helperVars, waitVars, beginVars, confVars>>

\* State of the components a WaitFor call leaves alone.
notWaitVars == <<helperVars, scanVars, beginVars, confVars>>

\* State of the components Begin and the wrapper leave alone.
notBeginVars == <<helperVars, scanVars, waitVars, confVars>>

\* State of the components Config leaves alone.
notConfVars == <<helperVars, scanVars, waitVars, beginVars>>

vars == <<helperVars, scanVars, waitVars, beginVars, confVars>>

NoObj == <<"none", 0>>

\* A method that has not been called has returned nothing.
NotCalled == [cause |-> "notcalled", stack |-> 0]

\* No ScanOne call yet.
ScanInit ==
    /\ spc = "idle"
    /\ rowsLeft = 0
    /\ rowsErr = FALSE
    /\ dest = 0
    /\ scanArgs = -1
    /\ consumed = 0
    /\ nextRes = "none"
    /\ errRes = NotCalled
    /\ scanRes = NotCalled
    /\ closeRes = NotCalled
    /\ scalls = <<>>
    /\ sret = NotCalled

\* No WaitFor call yet.
WaitInit ==
    /\ wpc = "idle"
    /\ interval = DefaultInterval
    /\ timeoutOpt = 0
    /\ start = 0
    /\ now = 0
    /\ hasDeadline = FALSE
    /\ deadline = 0
    /\ cancelled = FALSE
    /\ ctxErr = "none"
    /\ pingCtxDeadline = -1
    /\ nextTick = -1
    /\ tickReady = FALSE
    /\ ticks = 0
    /\ inflight = 0
    /\ nPingCtx = 0
    /\ nPing = 0
    /\ nFail = 0
    /\ lastRes = NotCalled
    /\ probeTime = 0
    /\ wret = NotCalled
    /\ wretCtx = "none"

\* No Begin call and no wrapper yet.
BeginInit ==
    /\ bpc = "idle"
    /\ bhandle = "none"
    /\ bbranch = "none"
    /\ bcalls = 0
    /\ begun = "none"
    /\ bretTx = "nil"
    /\ bretErr = NotCalled
    /\ wrState = "none"
    /\ wrCalls = <<>>
    /\ started = 0

\* A string is a sequence of pieces of text; the empty string is <<>>.
Empty == <<>>

\* var c Config.
ZeroConfig ==
    [Type |-> Empty, Host |-> Empty, Port |-> Empty, User |-> Empty,
     Password |-> Empty, DBName |-> Empty, SSLMode |-> Empty,
     SSLCA |-> Empty, SSLCert |-> Empty, SSLKey |-> Empty, SSLSNI |-> Empty,
     ConnectTimeout |-> 0]

NoURI ==
    [Scheme |-> Empty, User |-> <<>>, Host |-> <<Empty, Empty>>,
     Path |-> <<"/">>, RawQuery |-> <<>>]

NoGeu == [key |-> Empty, defaults |-> <<>>, n |-> 0, err |-> NotCalled]

\* A zero Config and an environment with no variable set (clearEnv).
ConfInit ==
    /\ cfg = ZeroConfig
    /\ env = <<>>
    /\ nsets = 0
    /\ last = "none"
    /\ pre = ZeroConfig
    /\ reads = {}
    /\ uri = NoURI
    /\ geu = NoGeu

Init ==
    /\ ScanInit
    /\ WaitInit
    /\ BeginInit
    /\ ConfInit
    /\ helper = "none"
    /\ pc = "idle"
    /\ txOpts = "na"
    /\ beginOpts = "na"
    /\ tx = 0
    /\ txState = "none"
    /\ stmtState = "none"
    /\ prepOn = NoObj
    /\ fnArg = NoObj
    /\ cbFinal = "none"
    /\ cbRes = Nil
    /\ serr = Nil
    /\ terr = Nil
    /\ panicking = FALSE
    /\ calls = <<>>

Record(op, r) == Append(calls, [op |-> op, res |-> r])

(***************************************************************************)
(* The transaction behind sql.Tx / the Tx interface: Commit and Rollback   *)
(* on a finalized transaction return sql.ErrTxDone; on an open one they    *)
(* succeed or fail.  A Commit refused because the context is done leaves   *)
(* the transaction open.  Each outcome is <<returned error, next state>>.  *)
(***************************************************************************)
TxCommitOutcomes(st) ==
    IF st = "open"
    THEN {<<Nil, "committed">>,
          <<Err("ErrCommit"), "commitFailed">>,
          <<Err("ErrCtx"), "open">>}
    ELSE {<<Err("ErrTxDone"), st>>}

TxRollbackOutcomes(st) ==
    IF st = "open"
    THEN {<<Nil, "rolledback">>, <<Err("ErrRollback"), "rollbackFailed">>}
    ELSE {<<Err("ErrTxDone"), st>>}

\* What a callback holding the transaction may call on it before returning:
\* nothing, Commit or Rollback, with the outcomes of that call.
CbOutcomes(st, f) ==
    CASE f = "commit" -> TxCommitOutcomes(st)
      [] f = "rollback" -> TxRollbackOutcomes(st)
      [] OTHER -> {<<Nil, st>>}

(***************************************************************************)
(* Decisions of the helpers.                                               *)
(***************************************************************************)
\* Where each helper starts.
Entry(h) ==
    CASE h = "WithStmt" -> "prepare"
      [] h = "TxDo" -> "fn"
      [] OTHER -> "begin"

\* Mutation of DefaultOpts: the nil options are passed through.
DefaultOptsKeepNil(o) == o

\* WithTx: a nil txOpts is replaced by new(sql.TxOptions).
DefaultOpts(o) == IF o = "nil" THEN "zero" ELSE o

\* Mutation of AfterBegin: the begin error is not checked.
AfterBeginIgnoreErr(r, h) == IF h = "WithTxStmt" THEN "prepare" ELSE "fn"

\* WithTx after BeginTx: a begin error is returned at once.
AfterBegin(r, h) ==
    IF r # Nil THEN "done"
    ELSE IF h = "WithTxStmt" THEN "prepare" ELSE "fn"

\* Mutation of PrepareTarget: the statement is prepared on the database.
PrepareTargetDb(h, t) == <<"db", 0>>

\* WithTxStmt prepares on the transaction it was handed, WithStmt on db.
PrepareTarget(h, t) == IF h = "WithTxStmt" THEN <<"tx", t>> ELSE <<"db", 0>>

\* Mutation of AfterPrepare: the prepare error is not checked.
AfterPrepareIgnoreErr(r) == "fn"

\* WithStmt after PrepareContext: a prepare error is returned at once.
AfterPrepare(r) == IF r # Nil THEN "return" ELSE "fn"

\* WithStmt's deferred Close runs whatever the callback did.
AfterStmtFn(r) == "close"

\* Mutation of CloseErr: the error of Close is dropped.
CloseErrDropped(e, err) == err

\* Mutation of CloseErr: a Close error replaces the callback's error.
CloseErrOverrides(e, err) == IF e # Nil THEN WithStack(e) ELSE err

\* WithStmt's deferred function: a Close error only fills an empty err.
CloseErr(e, err) == IF e # Nil /\ err = Nil THEN WithStack(e) ELSE err

\* Mutation of AfterFnTx: Commit is attempted whatever fn returned.
AfterFnTxAlwaysCommit(e) == "commit"

\* Mutation of AfterFnTx: Rollback is a plain call on the error path that
\* was forgotten, not a deferred one.
AfterFnTxSkipRollback(e) == IF e # Nil THEN "done" ELSE "commit"

\* WithTx after fn: an error returns (to the deferred Rollback), nil commits.
AfterFnTx(e) == IF e # Nil THEN "rollback" ELSE "commit"

\* Mutation of AfterCommit: Rollback only after a failed Commit.
AfterCommitSkipRollback(r) == IF r = Nil THEN "done" ELSE "rollback"

\* WithTx after Commit: the deferred Rollback always runs.
AfterCommit(r) == "rollback"

\* Mutation of RollbackErr: sql.ErrTxDone is not filtered out.
RollbackErrNoDoneCheck(e, err) ==
    IF e # Nil /\ err = Nil THEN WithStack(e) ELSE err

\* WithTx's deferred function: a Rollback error only fills an empty err,
\* and never when it is sql.ErrTxDone.
RollbackErr(e, err) ==
    IF e # Nil /\ err = Nil /\ ~Is(e, "ErrTxDone") THEN WithStack(e) ELSE err

\* A Commit whose sql.ErrTxDone is suppressed like the Rollback's.
CommitErrDoneSuppressed(e) == IF Is(e, "ErrTxDone") THEN Nil ELSE WithStack(e)

\* WithTx / TxDo: err = errors.WithStack(tx.Commit()).
CommitErr(e) == WithStack(e)

\* TxDo after fn.
TxDoAfterFn(e) == IF e # Nil THEN "rollback" ELSE "commit"

\* TxDo after Commit.
TxDoAfterCommit(r) == "rollback"

\* Mutation of TxDoRollbackErr: sql.ErrTxDone is not filtered out.
TxDoRollbackErrNoDoneCheck(e, err) ==
    IF e # Nil /\ err = Nil THEN WithStack(e) ELSE err

\* TxDo's deferred function.
TxDoRollbackErr(e, err) ==
    IF e # Nil /\ err = Nil /\ ~Is(e, "ErrTxDone") THEN WithStack(e) ELSE err

\* The argument handed to the user callback.
FnArgOf(h, t) == IF h \in StmtHelpers THEN <<"stmt", 0>> ELSE <<"tx", t>>

(***************************************************************************)
(* fn(tx) came back to WithTx / TxDo with error e, or panicked (p).        *)
(***************************************************************************)
TxFnReturn(e, p) ==
    IF p
    THEN /\ pc' = "rollback"
         /\ terr' = terr
    ELSE /\ pc' = IF helper = "TxDo" THEN TxDoAfterFn(e) ELSE AfterFnTx(e)
         /\ terr' = WithStack(e)

\* A closure that drops what WithStmt returns.
WithTxStmtClosureDropsErr(e) == Nil

\* WithTxStmt: the callback it gives to WithTx returns what WithStmt returns.
WithTxStmtClosure(e) == e

\* WithStmt came back with error e (or the panic p goes on unwinding).
StmtReturn(e, p) ==
    IF helper = "WithStmt"
    THEN /\ pc' = "done"
         /\ terr' = terr
    ELSE TxFnReturn(WithTxStmtClosure(e), p)

(***************************************************************************)
(* Actions.                                                                *)
(***************************************************************************)
\* A caller invokes one of the helpers.
Call ==
    /\ pc = "idle"
    /\ \E h \in Helpers, o \in {"nil", "custom"}, t \in TxIds :
        /\ helper' = h
        /\ txOpts' = IF h \in {"WithTx", "WithTxStmt"} THEN o ELSE "na"
        /\ tx' = IF h = "TxDo" THEN t ELSE 0
        /\ txState' = IF h = "TxDo" THEN "open" ELSE "none"
        /\ pc' = Entry(h)
    /\ UNCHANGED <<beginOpts, stmtState, prepOn, fnArg, cbFinal, cbRes, serr, terr,
                   panicking, calls>>
    /\ UNCHANGED notHelperVars

\* WithTx: db.BeginTx(ctx, txOpts).
BeginTx ==
    /\ pc = "begin"
    /\ beginOpts' = DefaultOpts(txOpts)
    /\ \E r \in {Nil, Err("ErrBegin")}, t \in TxIds :
        /\ calls' = Record("BeginTx", r)
        /\ pc' = AfterBegin(r, helper)
        /\ terr' = WithStack(r)
        /\ tx' = IF r = Nil THEN t ELSE 0
        /\ txState' = IF r = Nil THEN "open" ELSE "none"
    /\ UNCHANGED <<helper, txOpts, stmtState, prepOn, fnArg, cbFinal, cbRes, serr,
                   panicking>>
    /\ UNCHANGED notHelperVars

\* WithStmt: db.PrepareContext(ctx, query).
PrepareContext ==
    /\ pc = "prepare"
    /\ prepOn' = PrepareTarget(helper, tx)
    /\ \E r \in {Nil, Err("ErrPrepare")} :
        /\ calls' = Record("PrepareContext", r)
        /\ serr' = WithStack(r)
        /\ stmtState' = IF r = Nil THEN "open" ELSE "none"
        /\ IF AfterPrepare(r) = "return"
           THEN StmtReturn(serr', FALSE)
           ELSE /\ pc' = AfterPrepare(r)
                /\ terr' = terr
    /\ UNCHANGED <<helper, txOpts, beginOpts, tx, txState, fnArg, cbFinal, cbRes,
                   panicking>>
    /\ UNCHANGED notHelperVars

\* The user callback runs: it returns nil or an error, or panics; one that
\* holds the transaction may also have committed or rolled it back itself.
Fn ==
    /\ pc = "fn"
    /\ fnArg' = FnArgOf(helper, tx)
    /\ \E r \in {Nil, Err("ErrFn"), Panic}, f \in {"none", "commit", "rollback"} :
        /\ helper \in StmtHelpers => f = "none"
        /\ calls' = Record("fn", r)
        /\ cbFinal' = f
        /\ \E o \in CbOutcomes(txState, f) :
              /\ cbRes' = o[1]
              /\ txState' = o[2]
        /\ panicking' = (r = Panic)
        /\ IF helper \in StmtHelpers
           THEN /\ serr' = IF r = Panic THEN serr ELSE r
                /\ pc' = AfterStmtFn(r)
                /\ terr' = terr
           ELSE /\ serr' = serr
                /\ TxFnReturn(r, r = Panic)
    /\ UNCHANGED <<helper, txOpts, beginOpts, tx, stmtState, prepOn>>
    /\ UNCHANGED notHelperVars

\* WithStmt's deferred stmt.Close(), then WithStmt is left.
Close ==
    /\ pc = "close"
    /\ \E e \in {Nil, Err("ErrClose")} :
        /\ calls' = Record("Close", e)
        /\ stmtState' = "closed"
        /\ serr' = CloseErr(e, serr)
        /\ StmtReturn(serr', panicking)
    /\ UNCHANGED <<helper, txOpts, beginOpts, tx, txState, prepOn, fnArg,
                   cbFinal, cbRes, panicking>>
    /\ UNCHANGED notHelperVars

\* WithTx / TxDo: err = errors.WithStack(tx.Commit()).
Commit ==
    /\ pc = "commit"
    /\ \E o \in TxCommitOutcomes(txState) :
        /\ calls' = Record("Commit", o[1])
        /\ txState' = o[2]
        /\ terr' = CommitErr(o[1])
        /\ pc' = IF helper = "TxDo" THEN TxDoAfterCommit(o[1])
                                   ELSE AfterCommit(o[1])
    /\ UNCHANGED <<helper, txOpts, beginOpts, tx, stmtState, prepOn, fnArg,
                   cbFinal, cbRes, serr, panicking>>
    /\ UNCHANGED notHelperVars

\* WithTx / TxDo: the deferred tx.Rollback(), then the helper is left.
Rollback ==
    /\ pc = "rollback"
    /\ \E o \in TxRollbackOutcomes(txState) :
        /\ calls' = Record("Rollback", o[1])
        /\ txState' = o[2]
        /\ terr' = IF helper = "TxDo" THEN TxDoRollbackErr(o[1], terr)
                                     ELSE RollbackErr(o[1], terr)
    /\ pc' = "done"
    /\ UNCHANGED <<helper, txOpts, beginOpts, tx, stmtState, prepOn, fnArg,
                   cbFinal, cbRes, serr, panicking>>
    /\ UNCHANGED notHelperVars

Next ==
    \/ Call
    \/ BeginTx
    \/ PrepareContext
    \/ Fn
    \/ Close
    \/ Commit
    \/ Rollback

Spec == Init /\ [][Next]_vars

(***************************************************************************)
(* ScanOne (db.go): scan one row of a Rows iterator and close it.          *)
(***************************************************************************)
\* Rows.Next: a row is produced unless the iterator is exhausted or fails.
RowsHasNext == ~rowsErr /\ rowsLeft > 0

\* Rows.Err: the error that ended the iteration, if any.
RowsErrValue == IF rowsErr THEN Err("ErrIter") ELSE Nil

\* ScanOne after r.Next().
AfterNext(b) == IF b THEN "scan" ELSE "err"

\* Mutation of AfterScan: the scan-error path returns without closing.
AfterScanNoClose(e) == IF e # Nil THEN "done" ELSE "close"

\* ScanOne after r.Scan(dest...): every path closes the iterator.
AfterScan(e) == "close"

\* Mutation of NoRowResult: the iteration error is not looked at.
NoRowResultIgnoreErr(e) == Err("ErrNoRows")

\* ScanOne without a row: the iteration error, else sql.ErrNoRows.
NoRowResult(e) == IF e # Nil THEN e ELSE Err("ErrNoRows")

\* Mutation of RowResult: a Close error replaces the scan error.
RowResultCloseWins(e, c) == IF c # Nil THEN c ELSE e

\* ScanOne with a row: the scan error, else what Close returns.
RowResult(e, c) == IF e # Nil THEN e ELSE c

\* A caller hands ScanOne an iterator and destination bindings.
ScanCall ==
    /\ spc = "idle"
    /\ \E n \in 0..MaxRows, b \in BOOLEAN, d \in 0..MaxDest :
        /\ rowsLeft' = n
        /\ rowsErr' = b
        /\ dest' = d
    /\ spc' = "next"
    /\ UNCHANGED <<scanArgs, consumed, nextRes, errRes, scanRes, closeRes,
                   scalls, sret>>
    /\ UNCHANGED notScanVars

\* if !r.Next()
RowsNext ==
    /\ spc = "next"
    /\ scalls' = Append(scalls, "Next")
    /\ nextRes' = IF RowsHasNext THEN "true" ELSE "false"
    /\ rowsLeft' = IF RowsHasNext THEN rowsLeft - 1 ELSE rowsLeft
    /\ consumed' = IF RowsHasNext THEN consumed + 1 ELSE consumed
    /\ spc' = AfterNext(RowsHasNext)
    /\ UNCHANGED <<rowsErr, dest, scanArgs, errRes, scanRes, closeRes, sret>>
    /\ UNCHANGED notScanVars

\* err = r.Err()
RowsErr ==
    /\ spc = "err"
    /\ scalls' = Append(scalls, "Err")
    /\ errRes' = RowsErrValue
    /\ spc' = "close"
    /\ UNCHANGED <<rowsLeft, rowsErr, dest, scanArgs, consumed, nextRes,
                   scanRes, closeRes, sret>>
    /\ UNCHANGED notScanVars

\* err = r.Scan(dest...)
RowsScan ==
    /\ spc = "scan"
    /\ scalls' = Append(scalls, "Scan")
    /\ scanArgs' = dest
    /\ \E e \in {Nil, Err("ErrScan")} :
        /\ scanRes' = e
        /\ spc' = AfterScan(e)
        /\ sret' = IF AfterScan(e) = "done" THEN e ELSE sret
    /\ UNCHANGED <<rowsLeft, rowsErr, dest, consumed, nextRes, errRes,
                   closeRes>>
    /\ UNCHANGED notScanVars

\* r.Close(), then ScanOne returns.
RowsClose ==
    /\ spc = "close"
    /\ scalls' = Append(scalls, "Close")
    /\ \E c \in {Nil, Err("ErrRowsClose")} :
        /\ closeRes' = c
        /\ sret' = IF nextRes = "true" THEN RowResult(scanRes, c)
                                       ELSE NoRowResult(errRes)
    /\ spc' = "done"
    /\ UNCHANGED <<rowsLeft, rowsErr, dest, scanArgs, consumed, nextRes,
                   errRes, scanRes>>
    /\ UNCHANGED notScanVars

ScanNext ==
    \/ ScanCall
    \/ RowsNext
    \/ RowsErr
    \/ RowsScan
    \/ RowsClose

SpecScan == Init /\ [][ScanNext]_vars

\* Number of calls of method m made by ScanOne.
SCount(m) == Cardinality({i \in DOMAIN scalls : scalls[i] = m})

(***************************************************************************)
(* WaitFor (db.go): one immediate PingContext, then one Ping per tick of   *)
(* the ticker until a probe succeeds or ctx is done.  Time is a clock that *)
(* advances only while WaitFor is blocked: in a probe, or in the select    *)
(* with neither channel ready.                                             *)
(***************************************************************************)
\* errors.Wrap: a message and a stack around the same cause.
Wrap(e) == [cause |-> e.cause, stack |-> e.stack + 1]

\* WaitFor: the deadline is set only for a timeout greater than zero.
UseDeadline(t) == t > 0

\* A deadline counted from zero instead of from now().
DeadlineIgnoresNow(s, t) == t

\* WaitFor: context.WithDeadline(ctx, now().Add(wo.timeout)).
DeadlineOf(s, t) == s + t

\* time.NewTicker(d) panics unless d is positive.
NewTicker(d) == IF d <= 0 THEN "panic" ELSE "select"

\* WaitFor after the immediate PingContext.
AfterPingContext(r, d) == IF r = Nil THEN "done" ELSE NewTicker(d)

\* A tick that starts Ping and goes back to the select without waiting.
AfterTickAsync == "select"

\* WaitFor on a tick: database.Ping() is a blocking call.
AfterTick == "ping"

\* A loop that keeps polling after a successful Ping.
AfterPingIgnoresSuccess(r) == "select"

\* WaitFor after database.Ping().
AfterPing(r) == IF r = Nil THEN "done" ELSE "select"

\* WaitFor on ctx.Done(): errors.Wrap(ErrDBTimeout, "could not reach database").
TimeoutErr == Wrap(Err("ErrDBTimeout"))

\* The context error that returned error carries: ctx.Err() is not used.
TimeoutCtx(c) == "none"

CtxDone == ctxErr # "none"

\* WaitFor waits: for a probe to return, or in the select for a channel.
Blocked ==
    \/ wpc \in {"probe0", "ping"}
    \/ wpc = "select" /\ ~tickReady /\ ~CtxDone

\* WaitFor is called (options applied, deadline derived) and issues the
\* immediate database.PingContext(ctx).
WaitCall ==
    /\ wpc = "idle"
    /\ \E given \in BOOLEAN, d \in (-1)..MaxInterval, t \in (-1)..MaxTimeout,
          s \in 0..MaxStart, c \in BOOLEAN :
        /\ interval' = IF given THEN d ELSE DefaultInterval
        /\ timeoutOpt' = t
        /\ start' = s
        /\ now' = s
        /\ hasDeadline' = UseDeadline(t)
        /\ deadline' = IF UseDeadline(t) THEN DeadlineOf(s, t) ELSE 0
        /\ pingCtxDeadline' = IF UseDeadline(t) THEN DeadlineOf(s, t) ELSE -1
        /\ cancelled' = c
        /\ ctxErr' = IF c THEN "Canceled" ELSE "none"
    /\ wpc' = "probe0"
    /\ inflight' = inflight + 1
    /\ nPingCtx' = nPingCtx + 1
    /\ UNCHANGED <<nextTick, tickReady, ticks, nPing, nFail, lastRes,
                   probeTime, wret, wretCtx>>
    /\ UNCHANGED notWaitVars

\* PingContext returns; on an error the ticker is created.
PingContextReturn ==
    /\ wpc = "probe0"
    /\ \E r \in {Nil, Err("ErrPingCtx")} :
        /\ lastRes' = r
        /\ nFail' = IF r = Nil THEN nFail ELSE nFail + 1
        /\ wpc' = AfterPingContext(r, interval)
        /\ wret' = IF AfterPingContext(r, interval) = "done" THEN Nil ELSE wret
        /\ nextTick' = IF AfterPingContext(r, interval) = "select"
                       THEN now + interval ELSE nextTick
    /\ inflight' = inflight - 1
    /\ UNCHANGED <<interval, timeoutOpt, start, now, hasDeadline, deadline,
                   cancelled, ctxErr, pingCtxDeadline, tickReady, ticks,
                   nPingCtx, nPing, probeTime, wretCtx>>
    /\ UNCHANGED notWaitVars

\* case <-ticker.C: a tick is received and database.Ping() is issued.
SelectTick ==
    /\ wpc = "select"
    /\ tickReady
    /\ tickReady' = FALSE
    /\ ticks' = ticks + 1
    /\ nPing' = nPing + 1
    /\ inflight' = inflight + 1
    /\ wpc' = AfterTick
    /\ UNCHANGED <<interval, timeoutOpt, start, now, hasDeadline, deadline,
                   cancelled, ctxErr, pingCtxDeadline, nextTick, nPingCtx,
                   nFail, lastRes, probeTime, wret, wretCtx>>
    /\ UNCHANGED notWaitVars

\* Ping returns.
PingReturn ==
    /\ wpc = "ping"
    /\ \E r \in {Nil, Err("ErrPing")} :
        /\ lastRes' = r
        /\ nFail' = IF r = Nil THEN nFail ELSE nFail + 1
        /\ wpc' = AfterPing(r)
        /\ wret' = IF AfterPing(r) = "done" THEN Nil ELSE wret
    /\ inflight' = inflight - 1
    /\ UNCHANGED <<interval, timeoutOpt, start, now, hasDeadline, deadline,
                   cancelled, ctxErr, pingCtxDeadline, nextTick, tickReady,
                   ticks, nPingCtx, nPing, probeTime, wretCtx>>
    /\ UNCHANGED notWaitVars

\* case <-ctx.Done(): WaitFor returns the timeout error.
SelectDone ==
    /\ wpc = "select"
    /\ CtxDone
    /\ wpc' = "done"
    /\ wret' = TimeoutErr
    /\ wretCtx' = TimeoutCtx(ctxErr)
    /\ UNCHANGED <<interval, timeoutOpt, start, now, hasDeadline, deadline,
                   cancelled, ctxErr, pingCtxDeadline, nextTick, tickReady,
                   ticks, inflight, nPingCtx, nPing, nFail, lastRes,
                   probeTime>>
    /\ UNCHANGED notWaitVars

\* One time unit passes while WaitFor is blocked: the ticker may fire (a
\* tick is dropped when one is already waiting), the deadline may pass.
Advance ==
    /\ Blocked
    /\ now < MaxTime
    /\ now' = now + 1
    /\ IF nextTick = now + 1
       THEN /\ tickReady' = TRUE
            /\ nextTick' = nextTick + interval
       ELSE UNCHANGED <<tickReady, nextTick>>
    /\ ctxErr' = IF ~CtxDone /\ hasDeadline /\ now + 1 >= deadline
                 THEN "DeadlineExceeded" ELSE ctxErr
    /\ probeTime' = IF inflight > 0 THEN probeTime + 1 ELSE probeTime
    /\ UNCHANGED <<wpc, interval, timeoutOpt, start, hasDeadline, deadline,
                   cancelled, pingCtxDeadline, ticks, inflight, nPingCtx,
                   nPing, nFail, lastRes, wret, wretCtx>>
    /\ UNCHANGED notWaitVars

\* The caller cancels the context it gave to WaitFor.
CallerCancel ==
    /\ wpc \in {"probe0", "select", "ping"}
    /\ ~cancelled
    /\ cancelled' = TRUE
    /\ ctxErr' = IF CtxDone THEN ctxErr ELSE "Canceled"
    /\ UNCHANGED <<wpc, interval, timeoutOpt, start, now, hasDeadline,
                   deadline, pingCtxDeadline, nextTick, tickReady, ticks,
                   inflight, nPingCtx, nPing, nFail, lastRes, probeTime,
                   wret, wretCtx>>
    /\ UNCHANGED notWaitVars

WaitNext ==
    \/ WaitCall
    \/ PingContextReturn
    \/ SelectTick
    \/ PingReturn
    \/ SelectDone
    \/ Advance
    \/ CallerCancel

SpecWait == Init /\ [][WaitNext]_vars

\* Every probe returns, time passes while WaitFor is blocked, a select with
\* a ready case proceeds and, picking at random among its ready cases, does
\* not leave the ctx.Done() case out for ever.
SpecWaitFair ==
    /\ SpecWait
    /\ WF_vars(PingContextReturn)
    /\ WF_vars(PingReturn)
    /\ WF_vars(Advance)
    /\ WF_vars(SelectTick)
    /\ SF_vars(SelectDone)

(***************************************************************************)
(* Begin and the transaction wrapper (tx.go).  A handle is known by the    *)
(* types it satisfies; the type switch of Begin takes the first case, in   *)
(* the order written, that the handle satisfies.                           *)
(***************************************************************************)
HandleKinds == {"Tx", "DB", "sqlDB", "TxBeginor", "other", "nil"}

\* The case types of Begin's switch a handle of each kind satisfies: every
\* Tx is a DB (Tx embeds DB), *sql.DB is a TxBeginor.
Satisfies(h) ==
    CASE h = "Tx" -> {"Tx", "DB"}
      [] h = "DB" -> {"DB"}
      [] h = "sqlDB" -> {"*sql.DB", "TxBeginor"}
      [] h = "TxBeginor" -> {"TxBeginor"}
      [] OTHER -> {}

\* switch db := database.(type): the first case satisfied, else none.
RECURSIVE TypeSwitch(_, _)
TypeSwitch(h, cases) ==
    IF cases = <<>> THEN "default"
    ELSE IF Head(cases) \in Satisfies(h) THEN Head(cases)
    ELSE TypeSwitch(h, Tail(cases))

\* A switch that tries the DB case before the Tx case.
BeginCaseDBFirst(h) == TypeSwitch(h, <<"DB", "Tx", "*sql.DB", "TxBeginor">>)

\* Begin: case Tx, case DB, case *sql.DB, case TxBeginor.
BeginCase(h) == TypeSwitch(h, <<"Tx", "DB", "*sql.DB", "TxBeginor">>)

\* Begin: the cases that return an error without any call.
BeginReject(c) ==
    CASE c = "Tx" -> Err("ErrTxFromTx")
      [] c = "default" -> Err("ErrTypeMismatch")
      [] OTHER -> Nil

\* What BeginTx of the handle returns on success, by case: a DB returns a
\* Tx, *sql.DB and TxBeginor return a *sql.Tx.
BegunBy(c) == IF c \in {"DB", "Tx"} THEN "dbtx" ELSE "sqltx"

\* Begin: a Tx is returned as it is, a *sql.Tx inside a wrapper (&tx{Tx: t}).
BeginResult(b) == IF b = "sqltx" THEN "wrapper" ELSE b

\* A Close that rolls the transaction back.
TxAfterCloseRollsBack(st) == IF st = "open" THEN "rolledback" ELSE st

\* tx.Close touches nothing.
TxAfterClose(st) == st

\* tx.BeginTx returns its receiver.
TxBeginTxSelf == TRUE

\* Begin is called and, unless it rejects the handle, reaches BeginTx.
BeginCall ==
    /\ bpc = "idle"
    /\ wrState = "none"
    /\ \E h \in HandleKinds :
        /\ bhandle' = h
        /\ bbranch' = BeginCase(h)
        /\ IF BeginReject(BeginCase(h)) # Nil
           THEN /\ bpc' = "done"
                /\ bretErr' = BeginReject(BeginCase(h))
           ELSE /\ bpc' = "begin"
                /\ UNCHANGED bretErr
    /\ UNCHANGED <<bcalls, begun, bretTx, wrState, wrCalls, started>>
    /\ UNCHANGED notBeginVars

\* db.BeginTx(ctx, opts) of the handle returns, and Begin returns.
HandleBeginTx ==
    /\ bpc = "begin"
    /\ bcalls' = bcalls + 1
    /\ bpc' = "done"
    /\ \/ /\ begun' = BegunBy(bbranch)
          /\ bretTx' = BeginResult(BegunBy(bbranch))
          /\ bretErr' = Nil
          /\ started' = started + 1
          /\ wrState' = IF BeginResult(BegunBy(bbranch)) = "wrapper"
                        THEN "open" ELSE wrState
       \/ /\ bretErr' = Err("ErrBegin")
          /\ UNCHANGED <<begun, bretTx, started, wrState>>
    /\ UNCHANGED <<bhandle, bbranch, wrCalls>>
    /\ UNCHANGED notBeginVars

\* NewTx(tr): a wrapper around a transaction started elsewhere.
NewTx ==
    /\ bpc = "idle"
    /\ wrState = "none"
    /\ wrState' = "open"
    /\ started' = started + 1
    /\ UNCHANGED <<bpc, bhandle, bbranch, bcalls, begun, bretTx, bretErr,
                   wrCalls>>
    /\ UNCHANGED notBeginVars

WrapperCall(op, r, same, after, n) ==
    /\ wrState # "none"
    /\ Len(wrCalls) < MaxWrapperCalls
    /\ wrCalls' = Append(wrCalls, [op |-> op, res |-> r, same |-> same,
                                   before |-> wrState, after |-> after,
                                   begunBefore |-> started,
                                   begunAfter |-> started + n])
    /\ wrState' = after
    /\ started' = started + n
    /\ UNCHANGED <<bpc, bhandle, bbranch, bcalls, begun, bretTx, bretErr>>
    /\ UNCHANGED notBeginVars

\* tx.Close().
WrapperClose ==
    /\ wrState # "none"
    /\ WrapperCall("Close", Err("ErrCannotCloseTx"), FALSE,
                   TxAfterClose(wrState), 0)

\* tx.BeginTx(ctx, opts).
WrapperBeginTx ==
    /\ wrState # "none"
    /\ WrapperCall("BeginTx", Nil, TxBeginTxSelf, wrState,
                   IF TxBeginTxSelf THEN 0 ELSE 1)

\* tx.Commit(), the method of the embedded *sql.Tx.
WrapperCommit ==
    \E o \in TxCommitOutcomes(wrState) :
        WrapperCall("Commit", o[1], FALSE, o[2], 0)

\* tx.Rollback(), the method of the embedded *sql.Tx.
WrapperRollback ==
    \E o \in TxRollbackOutcomes(wrState) :
        WrapperCall("Rollback", o[1], FALSE, o[2], 0)

BeginNext ==
    \/ BeginCall
    \/ HandleBeginTx
    \/ NewTx
    \/ WrapperClose
    \/ WrapperBeginTx
    \/ WrapperCommit
    \/ WrapperRollback

SpecBegin == Init /\ [][BeginNext]_vars

(***************************************************************************)
(* Config (config.go): Init fills a Config from the environment, URI       *)
(* renders it.  Strings are sequences of pieces of text, so that prefixes, *)
(* upper-casing and the parsing and formatting of numbers are computed.    *)
(***************************************************************************)
PostgresDBType == <<"postgres">>

MySQLDBType == <<"mysql">>

\* strings.ToUpper, piece by piece.
UpperPiece(p) ==
    CASE p = "postgres" -> "POSTGRES"
      [] p = "mysql" -> "MYSQL"
      [] p = "sqlite" -> "SQLITE"
      [] OTHER -> p

ToUpper(str) == [i \in DOMAIN str |-> UpperPiece(str[i])]

Digits == <<"0", "1", "2", "3", "4", "5", "6", "7", "8", "9">>

IsDigit(ch) == \E i \in DOMAIN Digits : Digits[i] = ch

DigitValue(ch) == (CHOOSE i \in DOMAIN Digits : Digits[i] = ch) - 1

RECURSIVE DigitsValue(_, _)
DigitsValue(str, acc) ==
    IF str = <<>> THEN acc
    ELSE DigitsValue(Tail(str), acc * 10 + DigitValue(Head(str)))

\* strconv.ParseUint(v, 10, 64): decimal digits only, at least one.
ParseUint(str) ==
    IF str # <<>> /\ \A i \in DOMAIN str : IsDigit(str[i])
    THEN [n |-> DigitsValue(str, 0), err |-> Nil]
    ELSE [n |-> 0, err |-> Err("ErrSyntax")]

\* strconv.FormatUint(n, 10).
RECURSIVE FormatUint(_)
FormatUint(n) ==
    IF n < 10 THEN <<Digits[n + 1]>>
    ELSE FormatUint(n \div 10) \o <<Digits[(n % 10) + 1]>>

\* os.LookupEnv.
LookupEnv(e, key) ==
    IF key \in DOMAIN e THEN [v |-> e[key], ok |-> TRUE]
    ELSE [v |-> Empty, ok |-> FALSE]

RECURSIVE FirstNonEmpty(_)
FirstNonEmpty(defaults) ==
    IF defaults = <<>> THEN Empty
    ELSE IF Len(Head(defaults)) > 0 THEN Head(defaults)
    ELSE FirstNonEmpty(Tail(defaults))

\* getEnv(key, defaults...).
getEnv(e, key, defaults) ==
    IF ~LookupEnv(e, key).ok THEN FirstNonEmpty(defaults)
    ELSE LookupEnv(e, key).v

\* getEnvUint(key, defaults...).
getEnvUint(e, key, defaults) ==
    IF ~LookupEnv(e, key).ok
    THEN IF Len(defaults) > 0
         THEN [n |-> defaults[1], err |-> Nil]
         ELSE [n |-> 0, err |-> Err("errEnvNotFound")]
    ELSE IF ParseUint(LookupEnv(e, key).v).err # Nil
         THEN [n |-> 0, err |-> ParseUint(LookupEnv(e, key).v).err]
         ELSE [n |-> ParseUint(LookupEnv(e, key).v).n, err |-> Nil]

\* Init: db.Type after its first statement.
InitType(c, e) ==
    IF Len(c.Type) = 0
    THEN getEnv(e, <<"DATABASE_TYPE">>, <<PostgresDBType>>)
    ELSE c.Type

\* Init: defPort.
DefPort(t) ==
    CASE t = PostgresDBType -> <<"5432">>
      [] t = MySQLDBType -> <<"3306">>
      [] OTHER -> Empty

\* A prefix that is the same for every kind.
KeyPreAlwaysPostgres(t) == <<"POSTGRES", "_">>

\* Init: keyPre := strings.ToUpper(string(db.Type)) + "_".
KeyPre(t) == ToUpper(t) \o <<"_">>

\* A timeout whose parse error is kept as a value.
InitTimeoutKeepsError(r) == IF r.err # Nil THEN 1 ELSE r.n

\* Init: db.ConnectTimeout, _ = getEnvUint(...).
InitTimeout(r) == r.n

\* An Init that lets the environment override a field that is set.
FillAlways(cur, v) == v

\* Init: if len(db.F) == 0 { db.F = v }.
Fill(cur, v) == IF Len(cur) = 0 THEN v ELSE cur

\* Config.Init.
ConfigInit(c, e) ==
    LET t == InitType(c, e)
        k == KeyPre(t)
    IN  [c EXCEPT
           !.Type = t,
           !.Host = Fill(@, getEnv(e, k \o <<"HOST">>, <<<<"localhost">>>>)),
           !.Port = Fill(@, getEnv(e, k \o <<"PORT">>, <<DefPort(t)>>)),
           !.User = Fill(@, getEnv(e, k \o <<"USER">>, <<>>)),
           !.Password = Fill(@, getEnv(e, k \o <<"PASSWORD">>, <<>>)),
           !.DBName = Fill(@, getEnv(e, k \o <<"DB">>, <<>>)),
           !.SSLMode = Fill(@, getEnv(e, k \o <<"SSLMODE">>, <<>>)),
           !.ConnectTimeout =
               IF @ = 0
               THEN InitTimeout(getEnvUint(e, k \o <<"CONNECT_TIMEOUT">>,
                                           <<>>))
               ELSE @]

\* The variables Config.Init looks up.
InitReads(c, e) ==
    LET k == KeyPre(InitType(c, e))
    IN  (IF Len(c.Type) = 0 THEN {<<"DATABASE_TYPE">>} ELSE {})
        \cup (IF Len(c.Host) = 0 THEN {k \o <<"HOST">>} ELSE {})
        \cup (IF Len(c.Port) = 0 THEN {k \o <<"PORT">>} ELSE {})
        \cup (IF Len(c.User) = 0 THEN {k \o <<"USER">>} ELSE {})
        \cup (IF Len(c.Password) = 0 THEN {k \o <<"PASSWORD">>} ELSE {})
        \cup (IF Len(c.DBName) = 0 THEN {k \o <<"DB">>} ELSE {})
        \cup (IF Len(c.SSLMode) = 0 THEN {k \o <<"SSLMODE">>} ELSE {})
        \cup (IF c.ConnectTimeout = 0 THEN {k \o <<"CONNECT_TIMEOUT">>}
              ELSE {})

\* User-info whenever a user is set.
UserInfoUserOnly(c) ==
    IF Len(c.User) > 0 THEN <<c.User, c.Password>> ELSE <<>>

\* URI: u.User, set only with both a user and a password.
UserInfo(c) ==
    IF Len(c.User) > 0 /\ Len(c.Password) > 0
    THEN <<c.User, c.Password>> ELSE <<>>

\* URI: if len(v) > 0 { q.Set(name, v) }.
Param(name, v) == IF Len(v) > 0 THEN <<<<name, v>>>> ELSE <<>>

\* URI: if db.ConnectTimeout > 0 { q.Set(name, FormatUint(...)) }.
TimeoutParam(name, n) ==
    IF n > 0 THEN <<<<name, FormatUint(n)>>>> ELSE <<>>

\* URI: q.Encode(), the parameters set for the kind, sorted by name.
Query(c) ==
    CASE c.Type = PostgresDBType ->
            TimeoutParam("connect_timeout", c.ConnectTimeout)
            \o Param("sslcert", c.SSLCert) \o Param("sslkey", c.SSLKey)
            \o Param("sslmode", c.SSLMode) \o Param("sslrootcert", c.SSLCA)
            \o Param("sslsni", c.SSLSNI)
      [] c.Type = MySQLDBType ->
            TimeoutParam("connect-timeout", c.ConnectTimeout)
            \o Param("ssl-ca", c.SSLCA) \o Param("ssl-cert", c.SSLCert)
            \o Param("ssl-key", c.SSLKey) \o Param("ssl-mode", c.SSLMode)
      [] OTHER -> <<>>

\* Config.URI.
ConfigURI(c) ==
    [Scheme |-> c.Type,
     User |-> UserInfo(c),
     Host |-> <<c.Host, c.Port>>,
     Path |-> <<"/">> \o c.DBName,
     RawQuery |-> Query(c)]

TextFields == {"Host", "Port", "User", "Password", "DBName", "SSLMode",
               "SSLCA", "SSLCert", "SSLKey", "SSLSNI"}

TypeValues == {Empty, PostgresDBType, MySQLDBType, <<"sqlite">>}

TimeoutTexts == {Empty, <<"3">>, <<"x">>, <<"0", "7">>}

EnvPrefixes == {<<"POSTGRES", "_">>, <<"MYSQL", "_">>}

EnvTextNames == {"HOST", "PORT", "USER", "PASSWORD", "DB", "SSLMODE"}

EnvKeys ==
    {<<"DATABASE_TYPE">>}
    \cup {p \o <<n>> : p \in EnvPrefixes,
                      n \in EnvTextNames \cup {"CONNECT_TIMEOUT"}}

\* The values given to a variable of each name.
EnvValues(key) ==
    IF key = <<"DATABASE_TYPE">> THEN TypeValues
    ELSE IF key[Len(key)] = "CONNECT_TIMEOUT" THEN TimeoutTexts
    ELSE {Empty, <<"e">>}

\* os.Setenv of a variable Init may read.
Setenv ==
    /\ nsets < MaxSets
    /\ nsets' = nsets + 1
    /\ \E key \in EnvKeys : \E v \in EnvValues(key) :
          env' = [k \in DOMAIN env \cup {key} |->
                     IF k = key THEN v ELSE env[k]]
    /\ last' = "set"
    /\ pre' = ZeroConfig
    /\ reads' = {}
    /\ uri' = NoURI
    /\ geu' = NoGeu
    /\ UNCHANGED cfg
    /\ UNCHANGED notConfVars

\* The caller assigns a field of the Config.
SetField ==
    /\ nsets < MaxSets
    /\ nsets' = nsets + 1
    /\ \/ \E v \in TypeValues : cfg' = [cfg EXCEPT !.Type = v]
       \/ \E f \in TextFields, v \in {Empty, <<"f">>} :
             cfg' = [cfg EXCEPT ![f] = v]
       \/ \E n \in {0, 9} : cfg' = [cfg EXCEPT !.ConnectTimeout = n]
    /\ last' = "set"
    /\ pre' = ZeroConfig
    /\ reads' = {}
    /\ uri' = NoURI
    /\ geu' = NoGeu
    /\ UNCHANGED env
    /\ UNCHANGED notConfVars

\* c.Init().
CallInit ==
    /\ last # "Init"
    /\ cfg' = ConfigInit(cfg, env)
    /\ pre' = cfg
    /\ reads' = InitReads(cfg, env)
    /\ last' = "Init"
    /\ uri' = NoURI
    /\ geu' = NoGeu
    /\ UNCHANGED <<env, nsets>>
    /\ UNCHANGED notConfVars

\* c.URI(), on a Config as assigned or right after Init.
CallURI ==
    /\ last \in {"none", "set", "Init"}
    /\ uri' = ConfigURI(cfg)
    /\ last' = "URI"
    /\ geu' = NoGeu
    /\ UNCHANGED <<cfg, env, nsets, pre, reads>>
    /\ UNCHANGED notConfVars

\* getEnvUint(key) or getEnvUint(key, 25).
CallGetEnvUint ==
    /\ last \in {"none", "set"}
    /\ \E p \in EnvPrefixes, d \in {<<>>, <<25>>} :
          geu' = [key |-> p \o <<"CONNECT_TIMEOUT">>, defaults |-> d,
                  n |-> getEnvUint(env, p \o <<"CONNECT_TIMEOUT">>, d).n,
                  err |-> getEnvUint(env, p \o <<"CONNECT_TIMEOUT">>, d).err]
    /\ last' = "getEnvUint"
    /\ UNCHANGED <<cfg, env, nsets, pre, reads, uri>>
    /\ UNCHANGED notConfVars

ConfNext ==
    \/ Setenv
    \/ SetField
    \/ CallInit
    \/ CallURI
    \/ CallGetEnvUint

SpecConf == Init /\ [][ConfNext]_vars

(***************************************************************************)
(* Observations on a run.                                                  *)
(***************************************************************************)
Count(op) == Cardinality({i \in DOMAIN calls : calls[i].op = op})

Called(op) == Count(op) > 0

\* Position of the first call of op (0: never called).
Pos(op) ==
    IF Called(op)
    THEN CHOOSE i \in DOMAIN calls :
            /\ calls[i].op = op
            /\ \A j \in DOMAIN calls : calls[j].op = op => i <= j
    ELSE 0

\* Result of the first call of op.
ResOf(op) == calls[Pos(op)].res

Succeeded(op) == Called(op) /\ ResOf(op) = Nil

Failed(op) == Called(op) /\ ResOf(op) # Nil /\ ResOf(op) # Panic

\* The helper has returned to its caller (it did not panic).
Returned == pc = "done" /\ ~panicking

\* The value the helper returns.
ret == IF helper = "WithStmt" THEN serr ELSE terr

TypeOK ==
    /\ helper \in Helpers \cup {"none"}
    /\ pc \in {"idle", "begin", "prepare", "fn", "close", "commit",
               "rollback", "done"}
    /\ txOpts \in {"na", "nil", "custom"}
    /\ beginOpts \in {"na", "zero", "custom"}
    /\ tx \in TxIds \cup {0}
    /\ txState \in {"none", "open", "committed", "rolledback",
                    "commitFailed", "rollbackFailed"}
    /\ stmtState \in {"none", "open", "closed"}
    /\ cbFinal \in {"none", "commit", "rollback"}
    /\ cbFinal = "none" => cbRes = Nil
    /\ panicking \in BOOLEAN
    /\ Len(calls) <= 6

(***************************************************************************)
(* Properties of the resource-scope helpers.                               *)
(***************************************************************************)
\* The transaction the helper works on exists: TxDo is handed one, the
\* others begin it.
TxBegun == helper = "TxDo" \/ Succeeded("BeginTx")

\* What WithTx / TxDo return: fn's error, else Commit's error, else nil.
TxExpected ==
    IF Failed("fn") THEN WithStack(ResOf("fn"))
    ELSE IF Failed("Commit") THEN WithStack(ResOf("Commit"))
    ELSE Nil

\* C1: WithTx, BeginTx having succeeded: Commit is never called when the
\* callback returns an error, and is called exactly once when the callback
\* returns nil (never more than once in any case).
C1_CommitIffCallbackSucceeds ==
    (helper = "WithTx" /\ Succeeded("BeginTx")) =>
        /\ Count("Commit") <= 1
        /\ Failed("fn") => Count("Commit") = 0
        /\ (pc = "done" /\ Succeeded("fn")) => Count("Commit") = 1

C1_Witness ==
    /\ helper = "WithTx"
    /\ pc = "done"
    /\ Succeeded("fn")
    /\ Count("Commit") = 1

\* C2 as stated: whatever happened (the resource never acquired included),
\* a statement helper has called Close exactly once and a transaction helper
\* has called Rollback exactly once when it is left.
C2_ReleasedExactlyOnceAlways ==
    pc = "done" =>
        /\ helper \in StmtHelpers => Count("Close") = 1
        /\ helper \in TxHelpers => Count("Rollback") = 1

\* C2 amended: Close is called exactly once when PrepareContext succeeded
\* and never when it did not (or was never reached); Rollback is called
\* exactly once when the transaction exists and never when BeginTx failed;
\* this whether the callback returns nil, returns an error or panics.
C2_ReleasedOnceIffAcquired ==
    /\ Count("Close") <= 1
    /\ Count("Rollback") <= 1
    /\ pc = "done" =>
        /\ helper \in StmtHelpers =>
              Count("Close") = IF Succeeded("PrepareContext") THEN 1 ELSE 0
        /\ helper \in TxHelpers =>
              Count("Rollback") = IF TxBegun THEN 1 ELSE 0

C2_Witness ==
    /\ helper = "WithTxStmt"
    /\ pc = "done"
    /\ Failed("PrepareContext")
    /\ Count("Close") = 0
    /\ Count("Rollback") = 1

\* C3: WithStmt whose PrepareContext fails never invokes the callback,
\* attempts no Close and returns an error that is the preparation error.
C3_PrepareFailureReturnsAtOnce ==
    (helper = "WithStmt" /\ Failed("PrepareContext")) =>
        /\ ~Called("fn")
        /\ ~Called("Close")
        /\ stmtState = "none"
        /\ Returned
        /\ Is(ret, ResOf("PrepareContext").cause)

C3_Witness ==
    /\ helper = "WithStmt"
    /\ Failed("PrepareContext")
    /\ pc = "done"

\* C4: WithTx and WithTxStmt whose BeginTx fails invoke no callback, prepare
\* no statement, attempt neither Commit nor Rollback and return an error
\* that is the begin error; BeginTx never receives nil options: a nil txOpts
\* has been replaced by the zero-valued options.
C4_BeginFailureReturnsAtOnce ==
    (helper \in {"WithTx", "WithTxStmt"} /\ Called("BeginTx")) =>
        /\ txOpts = "nil" => beginOpts = "zero"
        /\ Failed("BeginTx") =>
              /\ ~Called("fn")
              /\ ~Called("PrepareContext")
              /\ ~Called("Commit")
              /\ ~Called("Rollback")
              /\ Returned
              /\ Is(ret, ResOf("BeginTx").cause)

C4_Witness ==
    /\ helper = "WithTxStmt"
    /\ txOpts = "nil"
    /\ Failed("BeginTx")
    /\ pc = "done"

\* What WithStmt returns by the precedence prepare > callback > close.
WithStmtExpected ==
    IF Failed("PrepareContext") THEN ResOf("PrepareContext")
    ELSE IF Failed("fn") THEN ResOf("fn")
    ELSE IF Failed("Close") THEN ResOf("Close")
    ELSE Nil

\* C5: WithStmt returns the highest-priority non-nil error among prepare
\* error > callback error > Close error, nil when there is none; the
\* callback's error is returned unchanged (unwrapped) even when Close fails.
C5_WithStmtPrecedence ==
    (helper = "WithStmt" /\ Returned) =>
        /\ ret = Nil <=> WithStmtExpected = Nil
        /\ ret # Nil => Is(ret, WithStmtExpected.cause)
        /\ Failed("fn") => ret = ResOf("fn")
        /\ Is(ret, "ErrClose") => Succeeded("fn")

C5_Witness ==
    /\ helper = "WithStmt"
    /\ Returned
    /\ Failed("fn")
    /\ Failed("Close")
    /\ ret = Err("ErrFn")

\* C6: WithTx, BeginTx having succeeded: it returns the callback's error if
\* the callback fails, otherwise Commit's error if Commit fails, otherwise
\* nil; sql.ErrTxDone coming from the deferred Rollback is never what is
\* returned, and err holds a Rollback error only when neither the callback
\* nor Commit had left an error.
C6_WithTxResult ==
    (helper = "WithTx" /\ Succeeded("BeginTx") /\ pc = "done") =>
        /\ ~panicking =>
              /\ ret = Nil <=> TxExpected = Nil
              /\ ret # Nil => Is(ret, TxExpected.cause)
              /\ Is(ret, "ErrTxDone") =>
                    Failed("fn") \/ Is(ResOf("Commit"), "ErrTxDone")
        /\ Is(terr, "ErrRollback") => ~Failed("fn") /\ ~Failed("Commit")

C6_Witness ==
    /\ helper = "WithTx"
    /\ Returned
    /\ Succeeded("fn")
    /\ Succeeded("Commit")
    /\ Is(ResOf("Rollback"), "ErrTxDone")
    /\ ret = Nil

\* The place of each call in WithTxStmt's order of steps.
Rank(op) ==
    CASE op = "BeginTx" -> 1
      [] op = "PrepareContext" -> 2
      [] op = "fn" -> 3
      [] op = "Close" -> 4
      [] op = "Commit" -> 5
      [] op = "Rollback" -> 6

\* C7: WithTxStmt calls BeginTx, PrepareContext, the callback, Close, then
\* Commit and/or Rollback, in that order; while the statement is open no
\* Commit or Rollback has been attempted; and PrepareContext is only ever
\* called on the transaction this call began.
C7_WithTxStmtOrder ==
    helper = "WithTxStmt" =>
        /\ \A i, j \in DOMAIN calls :
              i < j => Rank(calls[i].op) < Rank(calls[j].op)
        /\ (Called("Commit") \/ Called("Rollback")) =>
              /\ stmtState # "open"
              /\ Succeeded("PrepareContext") => Called("Close")
        /\ Called("PrepareContext") =>
              /\ Succeeded("BeginTx")
              /\ tx \in TxIds
              /\ prepOn = <<"tx", tx>>

C7_Witness ==
    /\ helper = "WithTxStmt"
    /\ pc = "done"
    /\ Called("Close")
    /\ Called("Commit")
    /\ Called("Rollback")
    /\ Pos("Close") < Pos("Commit")

\* No Rollback of the open transaction has failed, the helper's or one the
\* callback made itself.
RollbackOk ==
    /\ ~(Called("Rollback") /\ Is(ResOf("Rollback"), "ErrRollback"))
    /\ ~(cbFinal = "rollback" /\ Is(cbRes, "ErrRollback"))

\* A Commit of the transaction has failed, the helper's or one the callback
\* made itself.
CommitFailed == Failed("Commit") \/ (cbFinal = "commit" /\ cbRes # Nil)

\* C8 as stated: once WithTx or TxDo has returned (the transaction having
\* been begun, and unless a Rollback of the open transaction failed) the
\* transaction is not open; it is committed if nil is returned, and
\* otherwise it has been rolled back or a Commit of it has failed.
C8_FinalStateAsStated ==
    (helper \in {"WithTx", "TxDo"} /\ TxBegun /\ Returned /\ RollbackOk) =>
        /\ txState # "open"
        /\ ret = Nil => txState = "committed"
        /\ ret # Nil => (txState = "rolledback" \/ CommitFailed)

\* C8 amended: once WithTx or TxDo has returned (same provisos) the
\* transaction is not open; it is committed if nil is returned; if an error
\* is returned it has been rolled back, or a Commit of it has failed, or
\* the callback had committed it itself before it returned its error.
C8_NeverLeftOpen ==
    (helper \in {"WithTx", "TxDo"} /\ TxBegun /\ Returned /\ RollbackOk) =>
        /\ txState # "open"
        /\ ret = Nil => txState = "committed"
        /\ ret # Nil =>
              \/ txState = "rolledback"
              \/ CommitFailed
              \/ (cbFinal = "commit" /\ cbRes = Nil /\ txState = "committed")

C8_Witness ==
    /\ helper = "WithTx"
    /\ Returned
    /\ Failed("fn")
    /\ cbFinal = "commit"
    /\ cbRes = Nil
    /\ txState = "committed"
    /\ ~Called("Commit")
    /\ Is(ResOf("Rollback"), "ErrTxDone")

\* C9: TxDo begins nothing and invokes the callback with the transaction it
\* was given; Commit is called exactly once iff the callback returns nil and
\* never when it returns an error; Rollback is attempted on every path; the
\* callback's error, else Commit's error, else nil is returned, so that
\* sql.ErrTxDone from the deferred Rollback is suppressed.
C9_TxDoLikeWithTx ==
    helper = "TxDo" =>
        /\ ~Called("BeginTx")
        /\ Called("fn") => fnArg = <<"tx", tx>>
        /\ Count("Commit") <= 1
        /\ Failed("fn") => Count("Commit") = 0
        /\ pc = "done" =>
              /\ Count("Rollback") = 1
              /\ Succeeded("fn") <=> Count("Commit") = 1
        /\ Returned =>
              /\ ret = Nil <=> TxExpected = Nil
              /\ ret # Nil => Is(ret, TxExpected.cause)

C9_Witness ==
    /\ helper = "TxDo"
    /\ Returned
    /\ Succeeded("fn")
    /\ Succeeded("Commit")
    /\ Is(ResOf("Rollback"), "ErrTxDone")
    /\ ret = Nil

\* Everything the callback needs was acquired.
Acquired ==
    CASE helper = "WithStmt" -> Succeeded("PrepareContext")
      [] helper = "WithTx" -> Succeeded("BeginTx")
      [] helper = "WithTxStmt" ->
            Succeeded("BeginTx") /\ Succeeded("PrepareContext")
      [] OTHER -> helper = "TxDo"

\* C10: the user callback is invoked at most once by each helper: exactly
\* once when the acquisition succeeded, never when it failed.
C10_CallbackAtMostOnce ==
    /\ Count("fn") <= 1
    /\ Called("fn") => Acquired
    /\ pc = "done" => Count("fn") = IF Acquired THEN 1 ELSE 0

C10_Witness ==
    /\ helper = "WithTxStmt"
    /\ pc = "done"
    /\ Count("fn") = 1
    /\ Succeeded("PrepareContext")

\* A step whose result counts as success: it returned nil, or it is the
\* deferred Rollback returning sql.ErrTxDone.
StepOk(c) == c.res = Nil \/ (c.op = "Rollback" /\ Is(c.res, "ErrTxDone"))

\* C11: a helper returns nil only if every step it performed (begin,
\* prepare, callback, Close, Commit, Rollback) succeeded, sql.ErrTxDone of
\* the deferred Rollback counting as success; whenever another step failed
\* the helper returns a non-nil error.
C11_NoErrorDiscarded ==
    Returned =>
        /\ ret = Nil => \A i \in DOMAIN calls : StepOk(calls[i])
        /\ (\E i \in DOMAIN calls : ~StepOk(calls[i])) => ret # Nil

C11_Witness ==
    /\ helper = "WithTxStmt"
    /\ Returned
    /\ Succeeded("fn")
    /\ Failed("Close")
    /\ ~Called("Commit")
    /\ Is(ret, "ErrClose")

(***************************************************************************)
(* Properties of ScanOne.                                                  *)
(***************************************************************************)
\* C12: ScanOne closes the iterator exactly once on every path (no row,
\* iteration error, scan failure, scan success), as its last call; it calls
\* Next exactly once and Scan at most once, so that at most one row is
\* consumed however many are available.
C12_ScanOneClosesOnce ==
    /\ SCount("Close") <= 1
    /\ SCount("Next") <= 1
    /\ SCount("Scan") <= 1
    /\ consumed <= 1
    /\ spc = "done" =>
        /\ SCount("Close") = 1
        /\ SCount("Next") = 1
        /\ scalls[Len(scalls)] = "Close"

C12_Witness ==
    /\ spc = "done"
    /\ scanRes = Nil
    /\ consumed = 1
    /\ rowsLeft >= 1
    /\ SCount("Close") = 1

\* C13: ScanOne returns the iteration error when there is no row and Err is
\* non-nil, sql.ErrNoRows when there is no row and Err is nil, the scan
\* error when the row's Scan fails, and what Close returned when the Scan
\* succeeds; a Close error is returned on that last path only.
C13_ScanOneResult ==
    spc = "done" =>
        /\ (nextRes = "false" /\ errRes # Nil) => sret = errRes
        /\ (nextRes = "false" /\ errRes = Nil) => sret = Err("ErrNoRows")
        /\ (nextRes = "true" /\ scanRes # Nil) => sret = scanRes
        /\ (nextRes = "true" /\ scanRes = Nil) => sret = closeRes
        /\ Is(sret, "ErrRowsClose") => (nextRes = "true" /\ scanRes = Nil)

C13_Witness ==
    /\ spc = "done"
    /\ nextRes = "true"
    /\ scanRes = Err("ErrScan")
    /\ closeRes = Err("ErrRowsClose")
    /\ sret = Err("ErrScan")

(***************************************************************************)
(* WaitFor.                                                                *)
(***************************************************************************)
WaitReturned == wpc = "done"

Elapsed == now - start

\* C14: WaitFor issues exactly one PingContext, at once and before any
\* ticker exists; with a timeout configured the context it passes carries the
\* deadline now() + timeout, otherwise none.  If that probe succeeds WaitFor
\* returns nil with no Ping, no ticker and no time spent outside the probe.
C14_ImmediateProbe ==
    /\ nPingCtx <= 1
    /\ wpc # "idle" =>
        /\ nPingCtx = 1
        /\ pingCtxDeadline =
               IF timeoutOpt > 0 THEN start + timeoutOpt ELSE -1
    /\ (nPing > 0 \/ nextTick # -1) => nFail >= 1
    /\ (wpc # "idle" /\ lastRes = Nil /\ nFail = 0) =>
        /\ WaitReturned
        /\ wret = Nil
        /\ nPing = 0
        /\ ticks = 0
        /\ nextTick = -1
        /\ Elapsed = probeTime

C14_Witness ==
    /\ WaitReturned
    /\ nFail = 0
    /\ wret = Nil
    /\ timeoutOpt > 0
    /\ start > 0

\* C15 as stated: when the first N probes fail and the next succeeds, WaitFor
\* returns nil after exactly N ticks, N Pings and an elapsed time of
\* N * interval.
C15_ElapsedExactlyNIntervals ==
    (WaitReturned /\ wret = Nil /\ nFail >= 1) =>
        /\ ticks = nFail
        /\ nPing = nFail
        /\ Elapsed = nFail * interval

\* C15, amended: every tick WaitFor receives issues exactly one Ping; a
\* failing Ping keeps WaitFor in its loop and a succeeding one makes it return
\* nil with no further probe; after N failed probes and a success WaitFor has
\* received N ticks, and the elapsed time is at least N * interval, exactly
\* N * interval when the probes themselves took no time.
C15_OnePingPerTick ==
    /\ ticks = nPing
    /\ (nPing > 0 /\ lastRes = Nil) => (WaitReturned /\ wret = Nil)
    /\ (WaitReturned /\ wret = Nil) => (lastRes = Nil /\ inflight = 0)
    /\ (WaitReturned /\ wret = Nil /\ nFail >= 1) =>
        /\ ticks = nFail
        /\ nPing = nFail
        /\ Elapsed >= nFail * interval
        /\ probeTime = 0 => Elapsed = nFail * interval

C15_Witness ==
    /\ WaitReturned
    /\ wret = Nil
    /\ nFail = 2
    /\ probeTime = 0
    /\ Elapsed = 2 * interval

\* WaitFor has a stop condition: a deadline, or a caller that has cancelled.
StopConfigured == wpc # "idle" /\ (hasDeadline \/ cancelled)

\* C16: with a timeout configured or a cancelled caller context, when every
\* probe fails and every probe returns WaitFor eventually returns, and what
\* it returns is an error that is ErrDBTimeout.
C16_EventuallyTimeout ==
    /\ [](WaitReturned /\ lastRes # Nil => Is(wret, "ErrDBTimeout"))
    /\ StopConfigured ~> (WaitReturned \/ lastRes = Nil)

\* The same once the ticker could be created (interval greater than zero).
C16_WithPositiveInterval ==
    /\ [](WaitReturned /\ lastRes # Nil => Is(wret, "ErrDBTimeout"))
    /\ (StopConfigured /\ interval > 0) ~> (WaitReturned \/ lastRes = Nil)

\* C17: once ctx is done and no probe has succeeded, WaitFor at a loop
\* iteration boundary issues no further Ping: its only step from there is the
\* return of the timeout error.
C17_DoneStopsThePoll ==
    [][(wpc = "select" /\ CtxDone) =>
          /\ nPing' = nPing
          /\ wpc' \in {"select", "done"}
          /\ WaitReturned' => Is(wret', "ErrDBTimeout")]_vars

\* C18: the error WaitFor returns when ctx was done is ErrDBTimeout and
\* carries the cause the context was done for (deadline exceeded or
\* cancelled).
C18_TimeoutCarriesCause ==
    (WaitReturned /\ wret # Nil) =>
        /\ Is(wret, "ErrDBTimeout")
        /\ wretCtx = ctxErr

\* C19: with no timeout configured and a caller context that is not
\* cancelled, no deadline is set and WaitFor is either still polling or has
\* returned nil on a successful probe.
C19_RetriesIndefinitely ==
    (wpc # "idle" /\ timeoutOpt <= 0 /\ ~cancelled) =>
        /\ ~hasDeadline
        /\ \/ wpc \in {"probe0", "select", "ping"}
           \/ WaitReturned /\ wret = Nil /\ lastRes = Nil

\* The same once the ticker could be created (interval greater than zero).
C19_WithPositiveInterval ==
    (wpc # "idle" /\ timeoutOpt <= 0 /\ ~cancelled /\ interval > 0) =>
        /\ ~hasDeadline
        /\ \/ wpc \in {"probe0", "select", "ping"}
           \/ WaitReturned /\ wret = Nil /\ lastRes = Nil

\* C20: at most one probe is in flight, and exactly while WaitFor is inside
\* PingContext or Ping; while a probe is in flight WaitFor takes no step but
\* that probe's return, whatever happens to ctx, so the timeout error is
\* returned only from the select.
C20_SingleFlow ==
    /\ [](/\ inflight \in {0, 1}
          /\ inflight = 1 <=> wpc \in {"probe0", "ping"})
    /\ [][inflight > 0 =>
            \/ /\ wpc' = wpc
               /\ inflight' = inflight
               /\ wret' = wret
               /\ nPing' = nPing
            \/ /\ inflight' = 0
               /\ lastRes' \in {Nil, Err("ErrPingCtx"), Err("ErrPing")}
               /\ WaitReturned' => wret' = Nil]_vars

\* A Ping still in flight after the deadline has passed.
C20_Witness ==
    /\ wpc = "ping"
    /\ inflight = 1
    /\ hasDeadline
    /\ ctxErr = "DeadlineExceeded"
    /\ now > deadline

(***************************************************************************)
(* Begin and the transaction wrapper.                                      *)
(***************************************************************************)
BeginReturned == bpc = "done"

\* C21: Begin rejects, with an error and without any BeginTx call, every
\* handle that satisfies Tx and every handle of no recognized type; for a DB,
\* a *sql.DB or a TxBeginor it calls BeginTx exactly once and returns the
\* transaction begun (nil error) or the begin error (nil transaction).
C21_BeginDispatch ==
    /\ bcalls <= 1
    /\ BeginReturned =>
        /\ bhandle \in {"Tx", "other", "nil"} =>
            /\ bretErr # Nil
            /\ bretTx = "nil"
            /\ bcalls = 0
            /\ started = 0
        /\ bhandle \in {"DB", "sqlDB", "TxBeginor"} =>
            /\ bcalls = 1
            /\ \/ /\ bretErr = Nil
                  /\ begun # "none"
                  /\ bretTx = (IF bhandle = "DB" THEN "dbtx" ELSE "wrapper")
                  /\ started = 1
               \/ /\ bretErr = Err("ErrBegin")
                  /\ bretTx = "nil"
                  /\ started = 0

C21_Witness ==
    /\ BeginReturned
    /\ bhandle = "Tx"
    /\ bcalls = 0
    /\ Is(bretErr, "ErrTxFromTx")

\* C22: on the wrapper, Close always returns ErrCannotCloseTx and BeginTx
\* always returns the wrapper itself with a nil error; neither starts a
\* transaction nor changes the state of the wrapped transaction, whatever
\* that state is.
C22_WrapperNoOps ==
    \A i \in DOMAIN wrCalls :
        /\ wrCalls[i].op = "Close" =>
            /\ wrCalls[i].res = Err("ErrCannotCloseTx")
            /\ wrCalls[i].after = wrCalls[i].before
            /\ wrCalls[i].begunAfter = wrCalls[i].begunBefore
        /\ wrCalls[i].op = "BeginTx" =>
            /\ wrCalls[i].res = Nil
            /\ wrCalls[i].same
            /\ wrCalls[i].after = wrCalls[i].before
            /\ wrCalls[i].begunAfter = wrCalls[i].begunBefore

C22_Witness ==
    /\ \E i \in DOMAIN wrCalls :
        wrCalls[i].op = "Close" /\ wrCalls[i].before = "open"
    /\ \E i \in DOMAIN wrCalls :
        wrCalls[i].op = "BeginTx" /\ wrCalls[i].before = "committed"
    /\ wrState = "committed"

(***************************************************************************)
(* Config.                                                                 *)
(***************************************************************************)
\* The names of the parameters of a rendered query.
ParamNames(q) == {q[i][1] : i \in DOMAIN q}

\* The variable of a given name for the kind of a Config.
KindKey(t, name) == ToUpper(t) \o <<"_", name>>

\* Init was called, and nothing assigned since.
AfterInit == last = "Init" \/ (last = "URI" /\ reads # {})

\* C23: the rendered URI has user-info if and only if both User and Password
\* are non-empty, and it is then that user and that password.
C23_UserInfoBothOrNothing ==
    last = "URI" =>
        /\ uri.User # <<>> <=> (cfg.User # Empty /\ cfg.Password # Empty)
        /\ uri.User # <<>> => uri.User = <<cfg.User, cfg.Password>>

C23_Witness ==
    /\ last = "URI"
    /\ cfg.User # Empty
    /\ cfg.Password = Empty
    /\ uri.User = <<>>

PostgresParams == {"connect_timeout", "sslmode", "sslrootcert", "sslcert",
                   "sslkey", "sslsni"}

MySQLParams == {"connect-timeout", "ssl-mode", "ssl-ca", "ssl-cert",
                "ssl-key"}

\* The parameter names URI must emit for a Config: those of its kind whose
\* field is not empty (not zero).
ExpectedParams(c) ==
    IF c.Type = PostgresDBType
    THEN (IF c.ConnectTimeout # 0 THEN {"connect_timeout"} ELSE {})
         \cup (IF c.SSLMode # Empty THEN {"sslmode"} ELSE {})
         \cup (IF c.SSLCA # Empty THEN {"sslrootcert"} ELSE {})
         \cup (IF c.SSLCert # Empty THEN {"sslcert"} ELSE {})
         \cup (IF c.SSLKey # Empty THEN {"sslkey"} ELSE {})
         \cup (IF c.SSLSNI # Empty THEN {"sslsni"} ELSE {})
    ELSE IF c.Type = MySQLDBType
    THEN (IF c.ConnectTimeout # 0 THEN {"connect-timeout"} ELSE {})
         \cup (IF c.SSLMode # Empty THEN {"ssl-mode"} ELSE {})
         \cup (IF c.SSLCA # Empty THEN {"ssl-ca"} ELSE {})
         \cup (IF c.SSLCert # Empty THEN {"ssl-cert"} ELSE {})
         \cup (IF c.SSLKey # Empty THEN {"ssl-key"} ELSE {})
    ELSE {}

\* C24: Init looks up only DATABASE_TYPE and variables whose name starts with
\* the upper-cased kind and "_", so that a Config of one kind comes out the
\* same whatever the variables of the other kind are; URI emits exactly the
\* parameters of the Config's kind whose value is not empty or zero, under
\* that kind's names, each once and with a non-empty value.
C24_KindIsolated ==
    /\ last = "Init" =>
          /\ \A k \in reads :
                \/ k = <<"DATABASE_TYPE">>
                \/ /\ Len(k) = Len(cfg.Type) + 2
                   /\ SubSeq(k, 1, Len(k) - 1) = ToUpper(cfg.Type) \o <<"_">>
          /\ <<"DATABASE_TYPE">> \in reads <=> pre.Type = Empty
          /\ \A other \in {<<"POSTGRES">>, <<"MYSQL">>} :
                other # ToUpper(cfg.Type) =>
                    cfg = ConfigInit(pre,
                              [k \in {x \in DOMAIN env : x[1] # other[1]}
                                  |-> env[k]])
    /\ last = "URI" =>
          /\ ParamNames(uri.RawQuery) = ExpectedParams(cfg)
          /\ Len(uri.RawQuery) = Cardinality(ExpectedParams(cfg))
          /\ \A i \in DOMAIN uri.RawQuery : uri.RawQuery[i][2] # Empty
          /\ cfg.Type = PostgresDBType =>
                ParamNames(uri.RawQuery) \subseteq PostgresParams
          /\ cfg.Type = MySQLDBType =>
                ParamNames(uri.RawQuery) \subseteq MySQLParams

\* A mysql Config initialized while a POSTGRES_ variable is set.
C24_Witness ==
    /\ last = "Init"
    /\ cfg.Type = MySQLDBType
    /\ <<"POSTGRES", "_", "HOST">> \in DOMAIN env
    /\ env[<<"POSTGRES", "_", "HOST">>] # Empty
    /\ cfg.Host = <<"localhost">>

\* C25: Init leaves every field that is set as it is (and the fields it never
\* fills); an unset Type becomes the value of DATABASE_TYPE, or postgres when
\* that variable is absent; an unset Host becomes localhost and an unset Port
\* 5432 (postgres), 3306 (mysql) or empty (other kinds) when the kind's
\* variable is absent.
C25_InitFillsOnlyUnset ==
    last = "Init" =>
        /\ pre.Type # Empty => cfg.Type = pre.Type
        /\ \A f \in TextFields : pre[f] # Empty => cfg[f] = pre[f]
        /\ pre.ConnectTimeout # 0 => cfg.ConnectTimeout = pre.ConnectTimeout
        /\ \A f \in {"SSLCA", "SSLCert", "SSLKey", "SSLSNI"} : cfg[f] = pre[f]
        /\ pre.Type = Empty =>
              cfg.Type = (IF <<"DATABASE_TYPE">> \in DOMAIN env
                          THEN env[<<"DATABASE_TYPE">>] ELSE PostgresDBType)
        /\ (pre.Host = Empty /\ KindKey(cfg.Type, "HOST") \notin DOMAIN env) =>
              cfg.Host = <<"localhost">>
        /\ (pre.Port = Empty /\ KindKey(cfg.Type, "PORT") \notin DOMAIN env) =>
              cfg.Port = (IF cfg.Type = PostgresDBType THEN <<"5432">>
                          ELSE IF cfg.Type = MySQLDBType THEN <<"3306">>
                          ELSE Empty)

\* A Type set to mysql is kept although DATABASE_TYPE names postgres.
C25_Witness ==
    /\ last = "Init"
    /\ pre.Type = MySQLDBType
    /\ <<"DATABASE_TYPE">> \in DOMAIN env
    /\ env[<<"DATABASE_TYPE">>] = PostgresDBType
    /\ cfg.Type = MySQLDBType
    /\ cfg.Port = <<"3306">>

\* Texts that are not a decimal number.
Malformed == {Empty, <<"x">>}

\* C26: with a malformed <KIND>_CONNECT_TIMEOUT, Init leaves ConnectTimeout
\* at 0 and the URI rendered next has no connect-timeout parameter;
\* getEnvUint returns 0 and the parse error for a malformed value, and the
\* supplied default with no error for an absent variable.
C26_MalformedTimeoutIsUnset ==
    /\ (/\ AfterInit
        /\ pre.ConnectTimeout = 0
        /\ KindKey(cfg.Type, "CONNECT_TIMEOUT") \in DOMAIN env
        /\ env[KindKey(cfg.Type, "CONNECT_TIMEOUT")] \in Malformed) =>
          /\ cfg.ConnectTimeout = 0
          /\ last = "URI" =>
                ParamNames(uri.RawQuery)
                    \cap {"connect_timeout", "connect-timeout"} = {}
    /\ last = "getEnvUint" =>
          /\ (geu.key \in DOMAIN env /\ env[geu.key] \in Malformed) =>
                (Is(geu.err, "ErrSyntax") /\ geu.n = 0)
          /\ (geu.key \in DOMAIN env /\ env[geu.key] = <<"0", "7">>) =>
                (geu.err = Nil /\ geu.n = 7)
          /\ (geu.key \notin DOMAIN env /\ geu.defaults # <<>>) =>
                (geu.err = Nil /\ geu.n = geu.defaults[1])
          /\ (geu.key \notin DOMAIN env /\ geu.defaults = <<>>) =>
                Is(geu.err, "errEnvNotFound")

C26_Witness ==
    /\ last = "URI"
    /\ reads # {}
    /\ pre.ConnectTimeout = 0
    /\ cfg.Type = MySQLDBType
    /\ <<"MYSQL", "_", "CONNECT_TIMEOUT">> \in DOMAIN env
    /\ env[<<"MYSQL", "_", "CONNECT_TIMEOUT">>] = <<"x">>
    /\ cfg.ConnectTimeout = 0

(***************************************************************************)
(* Implicit behaviour of the helpers and of WaitFor.                       *)
(***************************************************************************)
\* C27: WithTxStmt, when the callback succeeds and closing the statement
\* fails: Commit is never called, Rollback is called once on the open
\* transaction and the close error is returned.  When PrepareContext fails:
\* the callback, Close and Commit are never called, Rollback is called once
\* and the prepare error is returned.
C27_CloseFailureAbortsTx ==
    helper = "WithTxStmt" =>
        /\ (Succeeded("fn") /\ Failed("Close")) =>
              /\ ~Called("Commit")
              /\ Returned =>
                    /\ Count("Rollback") = 1
                    /\ ResOf("Rollback") = Nil => txState = "rolledback"
                    /\ ~Is(ResOf("Rollback"), "ErrTxDone")
                    /\ Is(ret, "ErrClose")
        /\ Failed("PrepareContext") =>
              /\ ~Called("fn")
              /\ ~Called("Close")
              /\ ~Called("Commit")
              /\ Returned =>
                    /\ Count("Rollback") = 1
                    /\ ResOf("Rollback") = Nil => txState = "rolledback"
                    /\ ~Is(ResOf("Rollback"), "ErrTxDone")
                    /\ Is(ret, "ErrPrepare")

C27_Witness ==
    /\ helper = "WithTxStmt"
    /\ Returned
    /\ Succeeded("fn")
    /\ Failed("Close")
    /\ txState = "rolledback"
    /\ Is(ret, "ErrClose")

\* The callback has committed or rolled back the transaction itself: its
\* call was not refused, so the transaction is no longer open.
CbFinalized == cbFinal \in {"commit", "rollback"} /\ ~Is(cbRes, "ErrCtx")

\* C28: WithTx and TxDo, when the callback has finalized the transaction
\* itself and returns nil: the helper's Commit is still called, meets the
\* finished transaction, and the helper returns an error that is
\* sql.ErrTxDone; the deferred Rollback gets sql.ErrTxDone too, and that one
\* is suppressed.
C28_CommitAfterCallbackFinalized ==
    (helper \in {"WithTx", "TxDo"} /\ Succeeded("fn") /\ CbFinalized) =>
        /\ Called("Commit") => Is(ResOf("Commit"), "ErrTxDone")
        /\ Returned =>
              /\ Count("Commit") = 1
              /\ Is(ret, "ErrTxDone")
              /\ Count("Rollback") = 1
              /\ Is(ResOf("Rollback"), "ErrTxDone")

C28_Witness ==
    /\ helper = "TxDo"
    /\ Returned
    /\ Succeeded("fn")
    /\ cbFinal = "commit"
    /\ cbRes = Nil
    /\ txState = "committed"
    /\ Is(ret, "ErrTxDone")

\* WaitFor is over, by a return or otherwise.
WaitOver == wpc \in {"done", "panic"}

\* C29: WaitFor ends in one of two ways: it returns nil, exactly when the
\* last probe it issued succeeded, or it returns an error that is
\* ErrDBTimeout, and then ctx is done; the error of a failed probe is never
\* what it returns, and no probe is issued once it is over.
C29_TwoOutcomes ==
    /\ [](WaitOver =>
            /\ WaitReturned
            /\ inflight = 0
            /\ \/ wret = Nil /\ lastRes = Nil
               \/ Is(wret, "ErrDBTimeout") /\ CtxDone /\ lastRes # Nil
            /\ wret \notin {Err("ErrPingCtx"), Err("ErrPing")}
            /\ ~Is(wret, "ErrPingCtx")
            /\ ~Is(wret, "ErrPing"))
    /\ [][WaitOver => (nPing' = nPing /\ nPingCtx' = nPingCtx)]_vars

\* The same once the ticker could be created (interval greater than zero).
C29_WithPositiveInterval ==
    /\ []((WaitOver /\ interval > 0) =>
            /\ WaitReturned
            /\ inflight = 0
            /\ \/ wret = Nil /\ lastRes = Nil
               \/ Is(wret, "ErrDBTimeout") /\ CtxDone /\ lastRes # Nil
            /\ ~Is(wret, "ErrPingCtx")
            /\ ~Is(wret, "ErrPing"))
    /\ [][WaitOver => (nPing' = nPing /\ nPingCtx' = nPingCtx)]_vars

\* C30: WaitFor never ends abnormally: whatever the interval, zero and
\* negative ones included, after a failed immediate probe it is in its
\* polling loop or has returned nil or the timeout error.
C30_NeverPanics ==
    (wpc # "idle" /\ nFail >= 1) =>
        /\ wpc # "panic"
        /\ \/ wpc \in {"select", "ping"}
           \/ WaitReturned /\ (wret = Nil \/ Is(wret, "ErrDBTimeout"))

====
